---- MODULE Spec2Model ----
(***************************************************************************)
(* XPacket (xpacket.h, version 0.3): a header that, from the field list    *)
(* XPACKET_STRUCT, generates a struct and the pair serialize/deserialize.  *)
(*                                                                         *)
(* The model follows one inclusion of the header and one use of what it    *)
(* generates: the preprocessor check of the field list, the emission of    *)
(* the struct and the functions, a caller that owns a source record, a     *)
(* destination record, the storage their pointer fields refer to and a     *)
(* payload buffer, and the two generated functions run statement by        *)
(* statement (one step per field, one step per iteration of an array       *)
(* loop).  idx and it are uint16_t and wrap modulo 2^16 as in C.           *)
(***************************************************************************)
EXTENDS Integers, Sequences, FiniteSets, TLC

VARIABLES
  XPACKET_STRUCT, \* the field list the header is included with
  XPACKET_C,      \* whether XPACKET_C is defined at inclusion
  pc,             \* "include", "rejected", "emitted", "ready", "ser", "deser", "done"
  structDef,      \* struct XPACKET_NAME has been emitted
  funcDecl,       \* the two prototypes have been emitted
  funcDef,        \* the two function bodies have been emitted
  data,           \* the record passed to serialize (_data)
  dst,            \* the record passed to deserialize (_data)
  mem,            \* storage the pointer fields of data and dst refer to
  pl,             \* the payload (_pl)
  pl0,            \* the payload as it was when serialize was called
  idx,            \* uint16_t idx
  it,             \* uint16_t it
  lp,             \* "init" before an array loop's it = 0, "test" inside the loop
  fld,            \* position in the expansion of XPACKET_STRUCT
  serialized,     \* serialize has returned
  written,        \* value returned by serialize
  consumed,       \* value returned by deserialize
  calls           \* the calls made to the hooks of FIELD_CUSTOM fields

vars == <<XPACKET_STRUCT, XPACKET_C, pc, structDef, funcDecl, funcDef, data, dst,
          mem, pl, pl0, idx, it, lp, fld, serialized, written, consumed, calls>>

(***************************************************************************)
(* Bounds of the model.                                                    *)
(***************************************************************************)
\* length of the arrays of the small field lists
SmallDim == 2
\* capacity of the uint8_t array that holds characters
StrCap == 3
\* arrays up to this length are enumerated over every content
MaxEnumDim == 4
\* largest byte count a small hook reports
MaxHookLen == 2

\* the first array length a uint16_t iterator cannot reach
BigDim == 2^16
\* a uint32_t array of this length encodes to exactly 2^16 bytes
QuarterDim == 2^14

(***************************************************************************)
(* C integer arithmetic.                                                   *)
(***************************************************************************)
U16(n) == n % 2^16

SizeOf(type) ==
  CASE type = "uint8_t" -> 1
    [] type = "uint16_t" -> 2
    [] type = "uint32_t" -> 4

\* A value of the record is a 32-bit word kept as two 16-bit halves <<high, low>>:
\* the checker's integers are 32-bit signed and cannot hold a uint32_t.
Word(hi, lo) == <<hi, lo>>
Zero == Word(0, 0)

\* conversion to type: the value modulo 2^(8 * sizeof(type))
ToType(type, w) ==
  CASE type = "uint8_t" -> Word(0, w[2] % 2^8)
    [] type = "uint16_t" -> Word(0, w[2])
    [] type = "uint32_t" -> w

RECURSIVE BitOr(_, _)
BitOr(a, b) ==
  IF a = 0 THEN b
  ELSE IF b = 0 THEN a
  ELSE (IF a % 2 = 1 \/ b % 2 = 1 THEN 1 ELSE 0) + 2 * BitOr(a \div 2, b \div 2)

(***************************************************************************)
(* Memory: a total map from positions to values, kept as a default value   *)
(* and the finitely many positions that hold something else.               *)
(***************************************************************************)
MemConst(v) == [d |-> v, m |-> [j \in {} |-> 0]]

MemFrom(f, S, d) == [d |-> d, m |-> [j \in {i \in S : f[i] # d} |-> f[j]]]

Read(b, i) == IF i \in DOMAIN b.m THEN b.m[i] ELSE b.d

Write(b, i, v) ==
  IF v = b.d
  THEN [b EXCEPT !.m = [j \in (DOMAIN b.m) \ {i} |-> b.m[j]]]
  ELSE [b EXCEPT !.m = [j \in (DOMAIN b.m) \cup {i} |-> IF j = i THEN v ELSE b.m[j]]]

\* n consecutive writes of v starting at position p
Fill(b, p, n, v) ==
  IF v = b.d
  THEN [b EXCEPT !.m = [j \in {k \in DOMAIN b.m : k < p \/ k >= p + n} |-> b.m[j]]]
  ELSE [b EXCEPT !.m = [j \in (DOMAIN b.m) \cup (p .. (p + n - 1)) |->
                          IF j >= p /\ j < p + n THEN v ELSE b.m[j]]]

(***************************************************************************)
(* Field lists.  A field is the macro used and its arguments as written.   *)
(***************************************************************************)
F(type, name) == [macro |-> "FIELD", args |-> <<type, name>>]
FA(type, name, dim) == [macro |-> "FIELD", args |-> <<type, name, dim>>]
FP(type, name) == [macro |-> "FIELD_PTR", args |-> <<type, name>>]
FPA(type, name, dim) == [macro |-> "FIELD_PTR", args |-> <<type, name, dim>>]
FC(type, name, ser, de) == [macro |-> "FIELD_CUSTOM", args |-> <<type, name, ser, de>>]

\* the example of the file documentation, with the array shortened
DocExample == << F("uint16_t", "a"), FA("uint8_t", "b", SmallDim), FP("uint32_t", "c") >>
\* a uint8_t array used as a character buffer
StringSchema == << FA("uint8_t", "s", StrCap) >>

\* an array one element longer than a uint16_t iterator can count
BigArraySchema == << FA("uint8_t", "a", BigDim) >>
\* 2^16 bytes of array, then one more byte
WrapSchema == << FA("uint32_t", "a", QuarterDim), F("uint8_t", "b") >>
\* 2^16 bytes of array, then a custom field
WrapCustomSchema ==
  << FA("uint32_t", "a", QuarterDim), FC("blob_t", "x", "ser_blob", "de_blob") >>

Schemas ==
  << DocExample,
     StringSchema,
     << F("uint16_t", "a") >>,
     << FPA("uint16_t", "p", SmallDim), F("uint32_t", "d") >>,
     << F("uint8_t", "h"), FC("blob_t", "x", "ser_blob", "de_blob"), F("uint16_t", "t") >>,
     << FC("blob_t", "x", "ser_blob", "de_blob"), FC("blob_t", "y", "ser_blob", "de_blob") >>,
     \* field lists that should not be accepted
     << FA("uint8_t", "a", 0) >>,
     << F("uint8_t", "a"), FPA("uint16_t", "p", 0) >>,
     << F("uint8_t", "") >>,
     << FPA("uint32_t", "", SmallDim) >>,
     << F("float", "f") >>,
     << F("uint16_t", "a"), FP("uint64_t", "q") >>,
     << FA("int8_t", "z", SmallDim) >>,
     << [macro |-> "FIELD", args |-> <<"uint8_t">>] >>,
     << FC("", "x", "ser_blob", "de_blob") >>,
     << F("uint8_t", "a"), F("uint16_t", "a") >>,
     << FA("uint8_t", "b", SmallDim), FP("uint8_t", "b") >>,
     \* field lists that reach the limits of the 16-bit idx and it
     BigArraySchema,
     WrapSchema,
     WrapCustomSchema >>

(***************************************************************************)
(* Overloading of FIELD and FIELD_PTR on the number of arguments.          *)
(***************************************************************************)
OVERLOAD_FIELD(args) == (args \o <<"FIELD_ARRAY", "FIELD_VAR", "FIELD_ERROR">>)[4]

OVERLOAD_FIELD_PTR(args) ==
  (args \o <<"FIELD_PTR_ARRAY", "FIELD_PTR_VAR", "FIELD_ERROR">>)[4]

\* the macro a field expands to
Kind(decl) ==
  CASE decl.macro = "FIELD" -> OVERLOAD_FIELD(decl.args)
    [] decl.macro = "FIELD_PTR" -> OVERLOAD_FIELD_PTR(decl.args)
    [] decl.macro = "FIELD_CUSTOM" -> "FIELD_CUSTOM"

TypeOf(decl) == decl.args[1]
NameOf(decl) == decl.args[2]
DimOf(decl) == IF Kind(decl) \in {"FIELD_ARRAY", "FIELD_PTR_ARRAY"} THEN decl.args[3] ELSE 1

(***************************************************************************)
(* The check of the field list, evaluated by the preprocessor in #if.      *)
(***************************************************************************)
\* value of an identifier in #if: 1 for the macros defined to 1, 0 for the rest
PPIdent(tok) ==
  IF tok \in {"TRUE", "XPACKET_TYPE_uint8_t", "XPACKET_TYPE_uint16_t",
              "XPACKET_TYPE_uint32_t"}
  THEN 1 ELSE 0

PPNot(a) == IF a = 0 THEN 1 ELSE 0
PPAnd(a, b) == IF a # 0 /\ b # 0 THEN 1 ELSE 0

FIELD_ERROR_check == 0

FIELD_VAR_check(type, name) ==
  PPAnd(PPNot(PPIdent("TRUE" \o name)), PPIdent("XPACKET_TYPE_" \o type))

FIELD_ARRAY_nodim(type, name, dim) ==
  PPAnd(PPNot(PPIdent("TRUE" \o name)), PPIdent("XPACKET_TYPE_" \o type))

FIELD_ARRAY_check(type, name, dim) ==
  PPAnd(PPAnd(PPNot(PPIdent("TRUE" \o name)), PPIdent("XPACKET_TYPE_" \o type)),
        IF dim > 0 THEN 1 ELSE 0)

FIELD_PTR_VAR_check(type, name) ==
  PPAnd(PPNot(PPIdent("TRUE" \o name)), PPIdent("XPACKET_TYPE_" \o type))

FIELD_PTR_ARRAY_check(type, name, dim) ==
  PPAnd(PPAnd(PPNot(PPIdent("TRUE" \o name)), PPIdent("XPACKET_TYPE_" \o type)),
        IF dim > 0 THEN 1 ELSE 0)

FIELD_CUSTOM_check(type, name, ser, de) ==
  PPAnd(PPAnd(PPNot(PPIdent("TRUE" \o type)), PPNot(PPIdent("TRUE" \o name))),
        PPAnd(PPNot(PPIdent("TRUE" \o ser)), PPNot(PPIdent("TRUE" \o de))))

FieldCheck(decl) ==
  LET a == decl.args
  IN CASE Kind(decl) = "FIELD_VAR" -> FIELD_VAR_check(a[1], a[2])
       [] Kind(decl) = "FIELD_ARRAY" -> FIELD_ARRAY_check(a[1], a[2], a[3])
       [] Kind(decl) = "FIELD_PTR_VAR" -> FIELD_PTR_VAR_check(a[1], a[2])
       [] Kind(decl) = "FIELD_PTR_ARRAY" -> FIELD_PTR_ARRAY_check(a[1], a[2], a[3])
       [] Kind(decl) = "FIELD_CUSTOM" -> FIELD_CUSTOM_check(a[1], a[2], a[3], a[4])
       [] Kind(decl) = "FIELD_ERROR" -> FIELD_ERROR_check

\* XPACKET_STRUCT 1 : every field's check, chained with &&, and a final 1
RECURSIVE StructCheck(_, _)
StructCheck(schema, k) ==
  IF k > Len(schema) THEN 1
  ELSE PPAnd(FieldCheck(schema[k]), StructCheck(schema, k + 1))

\* #if !(XPACKET_STRUCT 1)
XPACKET_BAD_FORMAT(schema) == PPNot(StructCheck(schema, 1)) # 0

\* two members of one struct may not share a name (the C compiler's rule)
DuplicateMember(schema) ==
  \E i, j \in DOMAIN schema : i < j /\ NameOf(schema[i]) = NameOf(schema[j])

(***************************************************************************)
(* The caller's objects: every content of the fields, the residual content *)
(* of the destination, and the payload before any call.                    *)
(***************************************************************************)
\* length of the payload prefix that holds pairwise different bytes
PatLen == 16

\* 0x00, 'a', 0xFF; 0x0000, 0x1234, 0xFFFF; 0x00000000, 0x12345678, 0xFFFFFFFF
Vals(type) ==
  CASE type = "uint8_t" -> {Zero, Word(0, 97), Word(0, 255)}
    [] type = "uint16_t" -> {Zero, Word(0, 4660), Word(0, 65535)}
    [] type = "uint32_t" -> {Zero, Word(4660, 22136), Word(65535, 65535)}

IsPtr(decl) == Kind(decl) \in {"FIELD_PTR_VAR", "FIELD_PTR_ARRAY"}
IsArray(decl) == Kind(decl) \in {"FIELD_ARRAY", "FIELD_PTR_ARRAY"}
IsCustom(decl) == Kind(decl) = "FIELD_CUSTOM"

\* a field list whose objects are too large to enumerate over every content
Large(schema) ==
  \E f \in DOMAIN schema : DimOf(schema[f]) > MaxEnumDim

ArrVals(type, dim) ==
  IF dim <= MaxEnumDim
  THEN {MemFrom(f, 0 .. (dim - 1), Zero) : f \in [0 .. (dim - 1) -> Vals(type)]}
  ELSE {MemConst(Zero), Write(MemConst(Zero), dim - 1, ToType(type, Word(65535, 65535)))}

FieldVals(decl) ==
  CASE IsCustom(decl) -> {Zero, Word(0, 97)}
    [] IsArray(decl) -> ArrVals(TypeOf(decl), DimOf(decl))
    [] OTHER -> Vals(TypeOf(decl))

RECURSIVE Product(_, _)
Product(sets, k) ==
  IF k = 0 THEN {<<>>}
  ELSE {Append(t, v) : t \in Product(sets, k - 1), v \in sets[k]}

Contents(schema) == Product([f \in DOMAIN schema |-> FieldVals(schema[f])], Len(schema))

ResidVal(decl, rv) ==
  IF IsCustom(decl) THEN ToType("uint8_t", rv) ELSE ToType(TypeOf(decl), rv)

ResidContents(schema, rv) ==
  [f \in DOMAIN schema |->
     IF IsArray(schema[f]) THEN MemConst(ResidVal(schema[f], rv))
     ELSE ResidVal(schema[f], rv)]

\* 0, 0xA5A5A5A5, 0xFFFFFFFF, each cut to the field's type
Residuals(schema) ==
  IF Large(schema) THEN {Zero} ELSE {Zero, Word(42405, 42405), Word(65535, 65535)}

PatternBuf ==
  MemFrom([i \in 0 .. (PatLen - 1) |-> ((i + 1) * 17 + 1) % 256], 0 .. (PatLen - 1), 0)

Payloads(schema) ==
  IF Large(schema) THEN {MemConst(0)} ELSE {MemConst(0), MemConst(255), PatternBuf}

\* storage cells taken by the pointer fields declared before field f
RECURSIVE CellsBefore(_, _)
CellsBefore(schema, f) ==
  IF f <= 1 THEN 0
  ELSE CellsBefore(schema, f - 1)
       + (IF IsPtr(schema[f - 1]) THEN DimOf(schema[f - 1]) ELSE 0)

NCells(schema) == CellsBefore(schema, Len(schema) + 1)

\* the element that contents c place in storage cell a
CellVal(schema, c, a) ==
  LET f == CHOOSE g \in DOMAIN schema :
             /\ IsPtr(schema[g])
             /\ CellsBefore(schema, g) <= a
             /\ a < CellsBefore(schema, g) + DimOf(schema[g])
  IN IF IsArray(schema[f]) THEN Read(c[f], a - CellsBefore(schema, f)) ELSE c[f]

\* the storage: the cells of data's pointers, then the cells of dst's pointers
Storage(schema, c, r) ==
  LET n == NCells(schema)
  IN MemFrom([a \in 0 .. (2 * n - 1) |->
                IF a < n THEN CellVal(schema, c, a) ELSE CellVal(schema, r, a - n)],
             0 .. (2 * n - 1), Zero)

RecordOf(schema, c, base) ==
  [f \in DOMAIN schema |->
     IF IsPtr(schema[f]) THEN base + CellsBefore(schema, f) ELSE c[f]]

(***************************************************************************)
(* The generated struct and prototypes.                                    *)
(***************************************************************************)
Init0(schema) ==
  /\ XPACKET_STRUCT = schema
  /\ XPACKET_C \in BOOLEAN
  /\ pc = "include"
  /\ structDef = FALSE /\ funcDecl = FALSE /\ funcDef = FALSE
  /\ data = <<>> /\ dst = <<>>
  /\ mem = MemConst(Zero) /\ pl = MemConst(0) /\ pl0 = MemConst(0)
  /\ idx = 0 /\ it = 0 /\ lp = "init" /\ fld = 1
  /\ serialized = FALSE /\ written = 0 /\ consumed = 0
  /\ calls = <<>>

Init == \E s \in DOMAIN Schemas : Init0(Schemas[s])

\* the field lists followed when the question is whether the calls return
LoopSchemas ==
  << BigArraySchema,
     << F("uint16_t", "a"), FP("uint8_t", "c") >>,
     << FPA("uint16_t", "p", SmallDim) >>,
     << FC("blob_t", "x", "ser_blob", "de_blob") >>,
     << FA("uint8_t", "a", 0) >> >>

InitLoop == \E s \in DOMAIN LoopSchemas : Init0(LoopSchemas[s])

\* the inclusion of xpacket.h: the check, then the struct and the functions
Preprocess ==
  /\ pc = "include"
  /\ IF XPACKET_BAD_FORMAT(XPACKET_STRUCT)
     THEN /\ pc' = "rejected"
          /\ UNCHANGED <<structDef, funcDecl, funcDef>>
     ELSE /\ pc' = "emitted"
          /\ structDef' = TRUE
          /\ funcDecl' = TRUE
          /\ funcDef' = XPACKET_C
  /\ UNCHANGED <<XPACKET_STRUCT, XPACKET_C, data, dst, mem, pl, pl0, idx, it, lp, fld,
                 serialized, written, consumed, calls>>

\* the caller defines its records, storage and payload
Instantiate ==
  /\ pc = "emitted"
  /\ funcDef
  /\ ~DuplicateMember(XPACKET_STRUCT)
  /\ \E c \in Contents(XPACKET_STRUCT), rv \in Residuals(XPACKET_STRUCT),
        b \in Payloads(XPACKET_STRUCT) :
       LET r == ResidContents(XPACKET_STRUCT, rv)
       IN /\ data' = RecordOf(XPACKET_STRUCT, c, 0)
          /\ dst' = RecordOf(XPACKET_STRUCT, r, NCells(XPACKET_STRUCT))
          /\ mem' = Storage(XPACKET_STRUCT, c, r)
          /\ pl' = b
          /\ pl0' = b
  /\ pc' = "ready"
  /\ UNCHANGED <<XPACKET_STRUCT, XPACKET_C, structDef, funcDecl, funcDef, idx, it, lp,
                 fld, serialized, written, consumed, calls>>

(***************************************************************************)
(* serialize.                                                              *)
(***************************************************************************)
\* offset = (int8_t)sizeof(type) * 8 - 8
InitOffset(type) == SizeOf(type) * 8 - 8

\* the byte stored by  _pl[idx++] = _data->name >> offset  (a uint8_t)
\* bits offset .. offset+7 of the word v, offset a multiple of 8
ByteOf(v, offset) ==
  ((IF offset >= 16 THEN v[1] ELSE v[2]) \div 2^(offset % 16)) % 2^8

ShiftByte_lsbfirst(type, v, offset) == ByteOf(v, InitOffset(type) - offset)

ShiftByte(type, v, offset) == ByteOf(v, offset)

\* for (offset = ...; offset >= 0; offset -= 8) _pl[idx++] = v >> offset;
RECURSIVE FIELD_VAR_serialize(_, _, _, _, _)
FIELD_VAR_serialize(buf, i, type, v, offset) ==
  IF offset >= 0
  THEN FIELD_VAR_serialize(Write(buf, i, ShiftByte(type, v, offset)), U16(i + 1),
                           type, v, offset - 8)
  ELSE [pl |-> buf, idx |-> i]

\* the lengths a hook may report: the hooks are the schema author's code
HookLens(hook) == 0 .. MaxHookLen

\* an encode hook that writes n bytes at the position it is given and does *idx += n
SerHook(buf, i, v, n) == [pl |-> Fill(buf, i, n, v[2] % 2^8), idx |-> U16(i + n)]

\* a decode hook that reads n bytes at the position it is given and does *idx += n
DeHook(buf, i, old, n) ==
  [val |-> IF n > 0 THEN Word(0, Read(buf, i)) ELSE old, idx |-> U16(i + n)]

Decl == XPACKET_STRUCT[fld]
NFields == Len(XPACKET_STRUCT)
\* it, after the for statement's  it = 0  when the loop is entered
LoopIt == IF lp = "init" THEN 0 ELSE it

CallSerialize ==
  /\ pc = "ready"
  /\ ~serialized
  /\ pc' = "ser"
  /\ idx' = 0 /\ it' = 0 /\ lp' = "init" /\ fld' = 1
  /\ pl0' = pl
  /\ calls' = <<>>
  /\ UNCHANGED <<XPACKET_STRUCT, XPACKET_C, structDef, funcDecl, funcDef, data, dst, mem,
                 pl, serialized, written, consumed>>

SerVar ==
  /\ pc = "ser" /\ fld <= NFields /\ Kind(Decl) = "FIELD_VAR"
  /\ LET r == FIELD_VAR_serialize(pl, idx, TypeOf(Decl), data[fld],
                                  InitOffset(TypeOf(Decl)))
     IN pl' = r.pl /\ idx' = r.idx
  /\ fld' = fld + 1
  /\ UNCHANGED <<XPACKET_STRUCT, XPACKET_C, pc, structDef, funcDecl, funcDef, data, dst,
                 mem, pl0, it, lp, serialized, written, consumed, calls>>

\* one test of  it < dim  and, when it holds, one iteration and  it++
SerArray ==
  /\ pc = "ser" /\ fld <= NFields /\ Kind(Decl) = "FIELD_ARRAY"
  /\ IF LoopIt < DimOf(Decl)
     THEN /\ LET r == FIELD_VAR_serialize(pl, idx, TypeOf(Decl), Read(data[fld], LoopIt),
                                          InitOffset(TypeOf(Decl)))
             IN pl' = r.pl /\ idx' = r.idx
          /\ it' = U16(LoopIt + 1)
          /\ lp' = "test"
          /\ fld' = fld
     ELSE /\ it' = LoopIt
          /\ lp' = "init"
          /\ fld' = fld + 1
          /\ UNCHANGED <<pl, idx>>
  /\ UNCHANGED <<XPACKET_STRUCT, XPACKET_C, pc, structDef, funcDecl, funcDef, data, dst,
                 mem, pl0, serialized, written, consumed, calls>>

SerPtrVar ==
  /\ pc = "ser" /\ fld <= NFields /\ Kind(Decl) = "FIELD_PTR_VAR"
  /\ LET r == FIELD_VAR_serialize(pl, idx, TypeOf(Decl), Read(mem, data[fld]),
                                  InitOffset(TypeOf(Decl)))
     IN pl' = r.pl /\ idx' = r.idx
  /\ fld' = fld + 1
  /\ UNCHANGED <<XPACKET_STRUCT, XPACKET_C, pc, structDef, funcDecl, funcDef, data, dst,
                 mem, pl0, it, lp, serialized, written, consumed, calls>>

SerPtrArray ==
  /\ pc = "ser" /\ fld <= NFields /\ Kind(Decl) = "FIELD_PTR_ARRAY"
  /\ IF LoopIt < DimOf(Decl)
     THEN /\ LET r == FIELD_VAR_serialize(pl, idx, TypeOf(Decl),
                                          Read(mem, data[fld] + LoopIt),
                                          InitOffset(TypeOf(Decl)))
             IN pl' = r.pl /\ idx' = r.idx
          /\ it' = U16(LoopIt + 1)
          /\ lp' = "test"
          /\ fld' = fld
     ELSE /\ it' = LoopIt
          /\ lp' = "init"
          /\ fld' = fld + 1
          /\ UNCHANGED <<pl, idx>>
  /\ UNCHANGED <<XPACKET_STRUCT, XPACKET_C, pc, structDef, funcDecl, funcDef, data, dst,
                 mem, pl0, serialized, written, consumed, calls>>

\* ser(_pl + idx, &_data->name, &idx);
SerCustom ==
  /\ pc = "ser" /\ fld <= NFields /\ Kind(Decl) = "FIELD_CUSTOM"
  /\ \E n \in HookLens(Decl.args[3]) :
       LET r == SerHook(pl, idx, data[fld], n)
       IN /\ pl' = r.pl /\ idx' = r.idx
          /\ calls' = Append(calls, [hook |-> Decl.args[3], f |-> fld, pos |-> idx,
                                     n |-> n])
  /\ fld' = fld + 1
  /\ UNCHANGED <<XPACKET_STRUCT, XPACKET_C, pc, structDef, funcDecl, funcDef, data, dst,
                 mem, pl0, it, lp, serialized, written, consumed>>

\* return idx;
SerReturn ==
  /\ pc = "ser" /\ fld = NFields + 1
  /\ written' = idx
  /\ serialized' = TRUE
  /\ pc' = "ready"
  /\ UNCHANGED <<XPACKET_STRUCT, XPACKET_C, structDef, funcDecl, funcDef, data, dst, mem,
                 pl, pl0, idx, it, lp, fld, consumed, calls>>

(***************************************************************************)
(* deserialize.                                                            *)
(***************************************************************************)
\* _data->name = 0;
Zeroed_skipped(old) == old

Zeroed(old) == Zero

\* a byte shifted left by offset, offset a multiple of 8 below 32
ShiftLeft(byte, offset) ==
  IF offset >= 16 THEN Word(byte * 2^(offset - 16), 0) ELSE Word(0, byte * 2^offset)

\* _data->name |= (type)_pl[idx++] << offset;
OrAssign(type, acc, byte, offset) ==
  LET b == ToType(type, Word(0, byte))
      s == ShiftLeft(b[2], offset)
  IN ToType(type, Word(BitOr(acc[1], s[1]), BitOr(acc[2], s[2])))

RECURSIVE FIELD_VAR_deserialize(_, _, _, _, _)
FIELD_VAR_deserialize(buf, i, type, acc, offset) ==
  IF offset >= 0
  THEN FIELD_VAR_deserialize(buf, U16(i + 1), type,
                             OrAssign(type, acc, Read(buf, i), offset), offset - 8)
  ELSE [val |-> acc, idx |-> i]

CallDeserialize ==
  /\ pc = "ready"
  /\ pc' = "deser"
  /\ idx' = 0 /\ it' = 0 /\ lp' = "init" /\ fld' = 1
  /\ calls' = <<>>
  /\ UNCHANGED <<XPACKET_STRUCT, XPACKET_C, structDef, funcDecl, funcDef, data, dst, mem,
                 pl, pl0, serialized, written, consumed>>

DeVar ==
  /\ pc = "deser" /\ fld <= NFields /\ Kind(Decl) = "FIELD_VAR"
  /\ LET r == FIELD_VAR_deserialize(pl, idx, TypeOf(Decl), Zeroed(dst[fld]),
                                    InitOffset(TypeOf(Decl)))
     IN dst' = [dst EXCEPT ![fld] = r.val] /\ idx' = r.idx
  /\ fld' = fld + 1
  /\ UNCHANGED <<XPACKET_STRUCT, XPACKET_C, pc, structDef, funcDecl, funcDef, data, mem,
                 pl, pl0, it, lp, serialized, written, consumed, calls>>

DeArray ==
  /\ pc = "deser" /\ fld <= NFields /\ Kind(Decl) = "FIELD_ARRAY"
  /\ IF LoopIt < DimOf(Decl)
     THEN /\ LET r == FIELD_VAR_deserialize(pl, idx, TypeOf(Decl),
                                            Zeroed(Read(dst[fld], LoopIt)),
                                            InitOffset(TypeOf(Decl)))
             IN /\ dst' = [dst EXCEPT ![fld] = Write(dst[fld], LoopIt, r.val)]
                /\ idx' = r.idx
          /\ it' = U16(LoopIt + 1)
          /\ lp' = "test"
          /\ fld' = fld
     ELSE /\ it' = LoopIt
          /\ lp' = "init"
          /\ fld' = fld + 1
          /\ UNCHANGED <<dst, idx>>
  /\ UNCHANGED <<XPACKET_STRUCT, XPACKET_C, pc, structDef, funcDecl, funcDef, data, mem,
                 pl, pl0, serialized, written, consumed, calls>>

DePtrVar ==
  /\ pc = "deser" /\ fld <= NFields /\ Kind(Decl) = "FIELD_PTR_VAR"
  /\ LET r == FIELD_VAR_deserialize(pl, idx, TypeOf(Decl), Zeroed(Read(mem, dst[fld])),
                                    InitOffset(TypeOf(Decl)))
     IN mem' = Write(mem, dst[fld], r.val) /\ idx' = r.idx
  /\ fld' = fld + 1
  /\ UNCHANGED <<XPACKET_STRUCT, XPACKET_C, pc, structDef, funcDecl, funcDef, data, dst,
                 pl, pl0, it, lp, serialized, written, consumed, calls>>

DePtrArray ==
  /\ pc = "deser" /\ fld <= NFields /\ Kind(Decl) = "FIELD_PTR_ARRAY"
  /\ IF LoopIt < DimOf(Decl)
     THEN /\ LET r == FIELD_VAR_deserialize(pl, idx, TypeOf(Decl),
                                            Zeroed(Read(mem, dst[fld] + LoopIt)),
                                            InitOffset(TypeOf(Decl)))
             IN /\ mem' = Write(mem, dst[fld] + LoopIt, r.val)
                /\ idx' = r.idx
          /\ it' = U16(LoopIt + 1)
          /\ lp' = "test"
          /\ fld' = fld
     ELSE /\ it' = LoopIt
          /\ lp' = "init"
          /\ fld' = fld + 1
          /\ UNCHANGED <<mem, idx>>
  /\ UNCHANGED <<XPACKET_STRUCT, XPACKET_C, pc, structDef, funcDecl, funcDef, data, dst,
                 pl, pl0, serialized, written, consumed, calls>>

\* de(_pl + idx, &_data->name, &idx);
DeCustom ==
  /\ pc = "deser" /\ fld <= NFields /\ Kind(Decl) = "FIELD_CUSTOM"
  /\ \E n \in HookLens(Decl.args[4]) :
       LET r == DeHook(pl, idx, dst[fld], n)
       IN /\ dst' = [dst EXCEPT ![fld] = r.val] /\ idx' = r.idx
          /\ calls' = Append(calls, [hook |-> Decl.args[4], f |-> fld, pos |-> idx,
                                     n |-> n])
  /\ fld' = fld + 1
  /\ UNCHANGED <<XPACKET_STRUCT, XPACKET_C, pc, structDef, funcDecl, funcDef, data, mem,
                 pl, pl0, it, lp, serialized, written, consumed>>

\* return idx;
DeReturn ==
  /\ pc = "deser" /\ fld = NFields + 1
  /\ consumed' = idx
  /\ pc' = "done"
  /\ UNCHANGED <<XPACKET_STRUCT, XPACKET_C, structDef, funcDecl, funcDef, data, dst, mem,
                 pl, pl0, idx, it, lp, fld, serialized, written, calls>>

Next ==
  \/ Preprocess \/ Instantiate
  \/ CallSerialize \/ SerVar \/ SerArray \/ SerPtrVar \/ SerPtrArray \/ SerCustom
  \/ SerReturn
  \/ CallDeserialize \/ DeVar \/ DeArray \/ DePtrVar \/ DePtrArray \/ DeCustom
  \/ DeReturn

Spec == Init /\ [][Next]_vars

\* the statements of the two functions
Run ==
  \/ SerVar \/ SerArray \/ SerPtrVar \/ SerPtrArray \/ SerCustom \/ SerReturn
  \/ DeVar \/ DeArray \/ DePtrVar \/ DePtrArray \/ DeCustom \/ DeReturn

\* a call, once made, keeps running: the functions neither block nor wait
FairSpec == InitLoop /\ [][Next]_vars /\ WF_vars(Run)

(***************************************************************************)
(* What the properties speak of.                                           *)
(***************************************************************************)
NoCustom(schema) == \A f \in DOMAIN schema : ~IsCustom(schema[f])

\* element i of field f of record rec, through the pointer for a pointer field
Elem(rec, st, f, i) ==
  LET decl == XPACKET_STRUCT[f]
  IN CASE Kind(decl) = "FIELD_VAR" -> rec[f]
       [] Kind(decl) = "FIELD_ARRAY" -> Read(rec[f], i)
       [] Kind(decl) = "FIELD_PTR_VAR" -> Read(st, rec[f])
       [] Kind(decl) = "FIELD_PTR_ARRAY" -> Read(st, rec[f] + i)
       [] Kind(decl) = "FIELD_CUSTOM" -> rec[f]

\* encoded size of a field that is not custom: W, or N * W
EncSize(decl) == DimOf(decl) * SizeOf(TypeOf(decl))

\* sum of the encoded sizes of the fields declared before field f
RECURSIVE WireOffset(_, _)
WireOffset(schema, f) ==
  IF f <= 1 THEN 0 ELSE WireOffset(schema, f - 1) + EncSize(schema[f - 1])

WireSize(schema) == WireOffset(schema, Len(schema) + 1)

\* the k-th byte, most significant first, of a value of width W bytes
BigEndianByte(v, W, k) == ByteOf(v, 8 * (W - 1 - k))

\* the value whose big-endian bytes are buf[i], buf[i+1], ... (W of them)
BigEndianWord(buf, i, W) ==
  CASE W = 1 -> Word(0, Read(buf, i))
    [] W = 2 -> Word(0, Read(buf, i) * 2^8 + Read(buf, U16(i + 1)))
    [] W = 4 -> Word(Read(buf, i) * 2^8 + Read(buf, U16(i + 1)),
                     Read(buf, U16(i + 2)) * 2^8 + Read(buf, U16(i + 3)))

Returned == pc = "ready" /\ serialized

(***************************************************************************)
(* C1.  Round trip: after serialize on data and deserialize on the bytes   *)
(* it wrote, every field of the destination, and every element its         *)
(* pointer fields refer to, equals its value in data (field lists without  *)
(* custom fields).  The 16-bit idx breaks it once the record encodes to    *)
(* more than 2^16 bytes.                                                   *)
(***************************************************************************)
RoundTrip ==
  (pc = "done" /\ serialized /\ NoCustom(XPACKET_STRUCT)) =>
    \A f \in DOMAIN XPACKET_STRUCT :
      \A i \in 0 .. (DimOf(XPACKET_STRUCT[f]) - 1) :
        Elem(dst, mem, f, i) = Elem(data, mem, f, i)

(***************************************************************************)
(* C2.  Wire length: without custom fields, the count serialize returns    *)
(* and the count deserialize returns both equal the sum of the fields'     *)
(* encoded sizes.  They are that sum modulo 2^16.                          *)
(***************************************************************************)
WireLength ==
  NoCustom(XPACKET_STRUCT) =>
    /\ Returned => written = WireSize(XPACKET_STRUCT)
    /\ pc = "done" => consumed = WireSize(XPACKET_STRUCT)

(***************************************************************************)
(* C3.  Big-endian scalar packing: the step that serializes a scalar or a  *)
(* dereferenced pointer scalar of width W and value v writes W bytes, the  *)
(* k-th of them (v >> 8*(W-1-k)) mod 256, at the W positions from idx on,  *)
(* and, when it has returned, 0x1234 has been written as 0x12, 0x34.       *)
(***************************************************************************)
BigEndianScalar ==
  [][(pc = "ser" /\ fld <= NFields /\ Kind(Decl) \in {"FIELD_VAR", "FIELD_PTR_VAR"}) =>
       LET W == SizeOf(TypeOf(Decl))
           v == Elem(data, mem, fld, 0)
       IN /\ \A k \in 0 .. (W - 1) :
               Read(pl', U16(idx + k)) = BigEndianByte(v, W, k)
          /\ idx' = U16(idx + W)
          /\ (XPACKET_STRUCT[1] = F("uint16_t", "a") /\ fld = 1 /\ v = Word(0, 4660)) =>
               Read(pl', 0) = 18 /\ Read(pl', 1) = 52]_vars

\* the 16-bit value 0x1234 has been serialized as the bytes 0x12, 0x34
BigEndianScalarWitness ==
  /\ Returned
  /\ XPACKET_STRUCT = << F("uint16_t", "a") >>
  /\ data[1] = Word(0, 4660)
  /\ Read(pl, 0) = 18 /\ Read(pl, 1) = 52
  /\ written = 2

(***************************************************************************)
(* C4.  Wire layout: without custom fields, when serialize has returned    *)
(* the bytes of element i of field f lie at the offset that is the sum of  *)
(* the encoded sizes of the fields declared before f, plus i * W, most     *)
(* significant byte first.  Past 2^16 bytes the positions wrap.            *)
(***************************************************************************)
WireLayout ==
  (Returned /\ NoCustom(XPACKET_STRUCT)) =>
    \A f \in DOMAIN XPACKET_STRUCT :
      LET W == SizeOf(TypeOf(XPACKET_STRUCT[f]))
      IN \A i \in 0 .. (DimOf(XPACKET_STRUCT[f]) - 1) :
           \A k \in 0 .. (W - 1) :
             Read(pl, WireOffset(XPACKET_STRUCT, f) + i * W + k)
               = BigEndianByte(Elem(data, mem, f, i), W, k)

(***************************************************************************)
(* C5.  Schema validation.  As claimed: a field list with a zero-length    *)
(* array, a duplicate name, a missing name or an unsupported type fails    *)
(* the check, and nothing is generated for it.                             *)
(***************************************************************************)
HasZeroLength(schema) ==
  \E f \in DOMAIN schema :
    /\ schema[f].macro \in {"FIELD", "FIELD_PTR"}
    /\ Len(schema[f].args) = 3
    /\ schema[f].args[3] = 0

HasMissingName(schema) ==
  \E f \in DOMAIN schema : Len(schema[f].args) >= 2 /\ schema[f].args[2] = ""

HasUnsupportedType(schema) ==
  \E f \in DOMAIN schema :
    /\ schema[f].macro \in {"FIELD", "FIELD_PTR"}
    /\ schema[f].args[1] \notin {"uint8_t", "uint16_t", "uint32_t"}

HasDuplicateName(schema) ==
  \E f, g \in DOMAIN schema :
    /\ f # g
    /\ Len(schema[f].args) >= 2 /\ Len(schema[g].args) >= 2
    /\ schema[f].args[2] = schema[g].args[2]

NothingGenerated == pc = "rejected" /\ ~structDef /\ ~funcDecl /\ ~funcDef

SchemaValidationClaimed ==
  (pc # "include"
     /\ (HasZeroLength(XPACKET_STRUCT) \/ HasDuplicateName(XPACKET_STRUCT)
           \/ HasMissingName(XPACKET_STRUCT) \/ HasUnsupportedType(XPACKET_STRUCT)))
    => NothingGenerated

(***************************************************************************)
(* C5, amended.  A field list with a zero-length array, a missing name or  *)
(* an unsupported type fails the check and nothing is generated for it; a  *)
(* field list whose only defect is a duplicate name passes the check, and  *)
(* the struct is emitted with both members.                                *)
(***************************************************************************)
SchemaValidation ==
  pc # "include" =>
    /\ (HasZeroLength(XPACKET_STRUCT) \/ HasMissingName(XPACKET_STRUCT)
          \/ HasUnsupportedType(XPACKET_STRUCT)) => NothingGenerated
    /\ (/\ HasDuplicateName(XPACKET_STRUCT)
        /\ ~HasZeroLength(XPACKET_STRUCT)
        /\ ~HasMissingName(XPACKET_STRUCT)
        /\ ~HasUnsupportedType(XPACKET_STRUCT)) => (pc = "emitted" /\ structDef)

\* a field list with a zero-length array has been through the check
SchemaValidationWitness ==
  /\ pc = "rejected"
  /\ HasZeroLength(XPACKET_STRUCT)
  /\ ~HasMissingName(XPACKET_STRUCT)
  /\ ~HasUnsupportedType(XPACKET_STRUCT)

(***************************************************************************)
(* C6.  Termination: every call of serialize and of deserialize returns.   *)
(* An array of 2^16 elements or more keeps the uint16_t it below dim for   *)
(* ever.                                                                   *)
(***************************************************************************)
Termination ==
  /\ (pc = "ser") ~> (pc = "ready")
  /\ (pc = "deser") ~> (pc = "done")

(***************************************************************************)
(* C7.  Custom field delegation: in one call each custom field's hook is   *)
(* called exactly once, in field order, with the position that is the      *)
(* number of bytes the preceding fields wrote, and the count returned is   *)
(* the number of bytes all fields wrote, the hooks' counts included.       *)
(***************************************************************************)
CustomFields(schema) == {f \in DOMAIN schema : IsCustom(schema[f])}

\* bytes written by the fields before field f, hooks as they reported
RECURSIVE BytesBefore(_, _, _)
BytesBefore(schema, log, f) ==
  IF f <= 1 THEN 0
  ELSE BytesBefore(schema, log, f - 1)
       + (IF IsCustom(schema[f - 1])
          THEN (CHOOSE c \in {log[j] : j \in DOMAIN log} : c.f = f - 1).n
          ELSE EncSize(schema[f - 1]))

CustomDelegation ==
  (Returned \/ pc = "done") =>
    /\ Len(calls) = Cardinality(CustomFields(XPACKET_STRUCT))
    /\ \A j \in DOMAIN calls :
         /\ calls[j].f \in CustomFields(XPACKET_STRUCT)
         /\ \A h \in DOMAIN calls : h < j => calls[h].f < calls[j].f
         /\ calls[j].pos = BytesBefore(XPACKET_STRUCT, calls, calls[j].f)
    /\ (Len(calls) > 0 /\ Returned) =>
         written = BytesBefore(XPACKET_STRUCT, calls, NFields + 1)
    /\ (Len(calls) > 0 /\ pc = "done") =>
         consumed = BytesBefore(XPACKET_STRUCT, calls, NFields + 1)

(***************************************************************************)
(* C8.  Decode ignores residual data: the step that deserializes an        *)
(* element of width W leaves in it the big-endian integer formed by the W  *)
(* payload bytes from idx on, whatever the element held before.            *)
(***************************************************************************)
DecodesElement ==
  /\ pc = "deser" /\ fld <= NFields /\ ~IsCustom(Decl)
  /\ IsArray(Decl) => LoopIt < DimOf(Decl)

DecodeIgnoresResidual ==
  [][DecodesElement =>
       LET W == SizeOf(TypeOf(Decl))
           i == IF IsArray(Decl) THEN LoopIt ELSE 0
       IN /\ Elem(dst', mem', fld, i) = BigEndianWord(pl, idx, W)
          /\ idx' = U16(idx + W)]_vars

\* element 0 of an array has been decoded to 0 while element 1 still holds the
\* residual 0xFF that element 0 held too
DecodeIgnoresResidualWitness ==
  /\ pc = "deser" /\ fld <= NFields /\ Kind(Decl) = "FIELD_ARRAY"
  /\ lp = "test" /\ it = 1
  /\ TypeOf(Decl) = "uint8_t"
  /\ dst[fld].d = Word(0, 255)
  /\ Read(dst[fld], 1) = Word(0, 255)
  /\ Read(dst[fld], 0) = Zero
  /\ Read(pl, U16(idx - 1)) = 0

(***************************************************************************)
(* C9.  Encode frame: serialize changes neither the record, nor its        *)
(* pointers, nor the storage they refer to, and when it returns every      *)
(* payload position at or beyond the returned count holds what it held     *)
(* when serialize was called.                                              *)
(***************************************************************************)
EncodeFrame ==
  [][pc = "ser" =>
       /\ data' = data /\ mem' = mem /\ dst' = dst
       /\ pc' = "ready" =>
            \A p \in (DOMAIN pl'.m) \cup (DOMAIN pl0'.m) :
              p >= written' => Read(pl', p) = Read(pl0', p)]_vars

(***************************************************************************)
(* C10.  String truncation: a character buffer of capacity N is encoded up *)
(* to, and not including, its first null byte, or in full when it holds    *)
(* none.  The header has no string field: a uint8_t array is the only      *)
(* inline character buffer, and all N of its bytes are written.            *)
(***************************************************************************)
\* index of the first null byte of the buffer, or its capacity
RECURSIVE CStrLen(_, _, _)
CStrLen(arr, cap, k) ==
  IF k >= cap \/ Read(arr, k) = Zero THEN k ELSE CStrLen(arr, cap, k + 1)

====
